---- MODULE Spec2Model ----
(***************************************************************************)
(* Spot welder controller (Spot_Welder_Firmware_ino.ino).                  *)
(*                                                                         *)
(* Two execution contexts on one AVR core: the main program (setup() once, *)
(* then loop() forever) and the INT0 handler zeroCrossISR.  The handler    *)
(* preempts the main program between any two of its steps and runs to      *)
(* completion: while isr # "idle" no main step is enabled.                 *)
(*                                                                         *)
(* now is the true time since reset in milliseconds.  clock is the value   *)
(* of millis(): an unsigned long, kept as two 16-bit halves <<high, low>>  *)
(* so that its arithmetic is the arithmetic modulo 2^32 of the target.     *)
(* The time the handler spends busy-waiting is accounted in microseconds   *)
(* in isrUs.                                                               *)
(***************************************************************************)
EXTENDS Integers, FiniteSets, Sequences, TLC

VARIABLES
    pc,             \* position of the main program
    isr,            \* position of zeroCrossISR: "idle", "fire", "pulse"
    intFlag,        \* INT0 request latched by a rising zero-cross edge
    attached,       \* attachInterrupt() has been executed
    triacOut,       \* pinMode(PIN_TRIAC, OUTPUT) has been executed
    triac,          \* level written to PIN_TRIAC
    foot,           \* level on PIN_FOOT_SW (INPUT_PULLUP, LOW = engaged)
    weldingActive,  \* volatile bool weldingActive
    firingDelay,    \* volatile int firingDelay
    fdPending,      \* value whose two-byte store into firingDelay is under way
    setTimeVal,     \* int setTimeVal
    setPowerVal,    \* int setPowerVal
    rawTime,        \* int rawTime   (last sample of PIN_POT_TIME)
    rawPower,       \* int rawPower  (last sample of PIN_POT_POWER)
    dispNum,        \* number handed to display.showNumberDecEx
    lastWeldTime,   \* unsigned long lastWeldTime, <<high, low>>
    weldDuration,   \* unsigned long weldDuration (local of performWeld)
    clock,          \* unsigned long returned by millis(), <<high, low>>
    delayStart,     \* time at which the running delay() was entered
    now,            \* true time since reset, ms
    isrUs,          \* microseconds spent in the current handler invocation
    fdRead,         \* history: firingDelay as read by that invocation
    served,         \* history: invocations of this session that found it armed
    pulses,         \* history: rising edges written to PIN_TRIAC this session
    hadEnd,         \* history: a session has ended and was time-stamped
    endTime         \* history: true time of the last time-stamp

vars == << pc, isr, intFlag, attached, triacOut, triac, foot, weldingActive,
           firingDelay, setTimeVal, setPowerVal, rawTime, rawPower, dispNum,
           lastWeldTime, weldDuration, clock, delayStart, now, isrUs, hadEnd,
           endTime, fdPending, fdRead, served, pulses >>

(***************************************************************************)
(* Program constants                                                       *)
(***************************************************************************)
DEBOUNCE_MS       == 500
SETUP_DELAY_MS    == 1000
TRIGGER_PULSE_US  == 50
HALF_CYCLE_US     == 10000
HALF_CYCLE_MS     == 10
ADC_MAX           == 1023
TIME_MIN          == 1
TIME_MAX          == 50
POWER_MIN         == 10
POWER_MAX         == 100
DELAY_AT_FULL     == 100
DELAY_AT_LOW      == 8500
MS_PER_LEVEL      == 20
DISPLAY_SHIFT     == 100

(***************************************************************************)
(* Bounds of the model                                                     *)
(***************************************************************************)
MaxNow    == 2000     \* no tick starts past this time, except inside delay()
RawExcess == 100      \* how far outside 0..ADC_MAX the widened samples go
MaxPulses == 2        \* zero crossings latched while one session is armed

TickSet    == {100, 400}               \* amounts by which time advances
PotSamples == {0, ADC_MAX}              \* samples of the interleaved model
PotPairs   == PotSamples \X PotSamples
PotSweep   == {<<r, r>> : r \in 0..ADC_MAX}
PotWide    == {<<r, r>> : r \in (0 - RawExcess)..(ADC_MAX + RawExcess)}

(***************************************************************************)
(* Machine arithmetic (ATmega328P: int is 16 bit, long is 32 bit)          *)
(***************************************************************************)
Abs(x) == IF x < 0 THEN 0 - x ELSE x

\* C++ integer division truncates toward zero
TruncDiv(a, b) ==
    IF (a < 0) = (b < 0) THEN Abs(a) \div Abs(b) ELSE 0 - (Abs(a) \div Abs(b))

\* unsigned long (32 bit) as <<high, low>>, both halves in 0..65535
U32(n) == << n \div 65536, n % 65536 >>

\* conversion of an int to unsigned long (sign extension)
U32FromInt16(v) == IF v < 0 THEN << 65535, v + 65536 >> ELSE << 0, v >>

U32Add(a, d) ==
    LET lo == a[2] + (d % 65536)
        hi == a[1] + (d \div 65536) + (lo \div 65536)
    IN  << hi % 65536, lo % 65536 >>

U32Sub(a, b) ==
    LET lo == a[2] - b[2]
        hi == a[1] - b[1] - (IF lo < 0 THEN 1 ELSE 0)
    IN  << hi % 65536, lo % 65536 >>

U32Gt(a, b) == a[1] > b[1] \/ (a[1] = b[1] /\ a[2] > b[2])

\* n >= a for a natural number n below 2^31
NatGeU32(n, a) == a[1] < 32768 /\ n >= a[1] * 65536 + a[2]

ToInt16(x) ==
    LET m == x % 65536 IN IF m >= 32768 THEN m - 65536 ELSE m

\* long map(long x, long in_min, long in_max, long out_min, long out_max).
\* Every argument is an int promoted to long; with the ranges used here the
\* product stays below 2^31 in magnitude, so long arithmetic is exact.
ArduinoMap(x, in_min, in_max, out_min, out_max) ==
    TruncDiv((x - in_min) * (out_max - out_min), in_max - in_min) + out_min

millis == clock

\* setTimeVal = map(rawTime, 0, 1023, 1, 50), stored in an int
TimeLevelOf_FromZero(raw) == ToInt16(ArduinoMap(raw, 0, ADC_MAX, 0, TIME_MAX))

TimeLevelOf(raw) == ToInt16(ArduinoMap(raw, 0, ADC_MAX, TIME_MIN, TIME_MAX))

\* setPowerVal = map(rawPower, 0, 1023, 10, 100), stored in an int
PowerPercentOf_FromZero(raw) == ToInt16(ArduinoMap(raw, 0, ADC_MAX, 0, POWER_MAX))

PowerPercentOf(raw) == ToInt16(ArduinoMap(raw, 0, ADC_MAX, POWER_MIN, POWER_MAX))

\* firingDelay = map(setPowerVal, 100, 10, 100, 8500), stored in an int
FiringDelayOf_FullHalfCycle(p) ==
    ToInt16(ArduinoMap(p, POWER_MAX, POWER_MIN, DELAY_AT_FULL, HALF_CYCLE_US))

FiringDelayOf(p) ==
    ToInt16(ArduinoMap(p, POWER_MAX, POWER_MIN, DELAY_AT_FULL, DELAY_AT_LOW))

\* unsigned long weldDuration = setTimeVal * 20  (the product is an int)
WeldDurationOf_Micros(t) == U32FromInt16(ToInt16(t * MS_PER_LEVEL * 1000))

WeldDurationOf(t) == U32FromInt16(ToInt16(t * MS_PER_LEVEL))

\* int dispNum = (setTimeVal * 100) + setPowerVal
DispNumOf(t, p) == ToInt16(ToInt16(t * DISPLAY_SHIFT) + p)

\* millis() - lastWeldTime > DEBOUNCE_MS, in unsigned long
DebounceElapsed_Inclusive ==
    ~U32Gt(U32FromInt16(DEBOUNCE_MS), U32Sub(millis, lastWeldTime))

DebounceElapsed_Absolute ==
    U32Gt(millis, U32Add(lastWeldTime, DEBOUNCE_MS))

DebounceElapsed == U32Gt(U32Sub(millis, lastWeldTime), U32FromInt16(DEBOUNCE_MS))

\* delay(ms) returns once ms milliseconds have passed since it was entered
DelayElapsed_OrReleased(ms) ==
    NatGeU32(now - delayStart, ms) \/ foot = "HIGH"

DelayElapsed(ms) == NatGeU32(now - delayStart, ms)

\* if (weldingActive) at the head of zeroCrossISR
IsrArmed_Always == TRUE

IsrArmed == weldingActive

\* volatile bool weldingActive = false
InitWeldingActive_True == TRUE

InitWeldingActive == FALSE

MainRuns == isr = "idle"

\* firingDelay is an int in two bytes, stored by two instructions between
\* which the handler can run: a read taken there sees one new and one old
\* byte, in the order the compiler chose.
MixBytes(h, l) == ToInt16(((h % 65536) \div 256) * 256 + (l % 256))

HandlerReads ==
    IF pc = "loop_store"
      THEN {MixBytes(fdPending, firingDelay), MixBytes(firingDelay, fdPending)}
      ELSE {firingDelay}

InDelay ==
    \/ pc = "setup_wait" /\ ~DelayElapsed(U32(SETUP_DELAY_MS))
    \/ pc = "weld_wait" /\ ~DelayElapsed(weldDuration)

(***************************************************************************)
(* State at reset                                                          *)
(***************************************************************************)
Init ==
    /\ pc = "setup_pinMode"
    /\ isr = "idle"
    /\ intFlag = FALSE
    /\ attached = FALSE
    /\ triacOut = FALSE
    /\ triac = "LOW"
    /\ foot \in {"LOW", "HIGH"}
    /\ weldingActive = InitWeldingActive
    /\ firingDelay = 0
    /\ setTimeVal = 0
    /\ setPowerVal = 0
    /\ rawTime = 0
    /\ rawPower = 0
    /\ dispNum = 0
    /\ lastWeldTime = U32(0)
    /\ weldDuration = U32(0)
    /\ clock = U32(0)
    /\ delayStart = 0
    /\ now = 0
    /\ isrUs = 0
    /\ hadEnd = FALSE
    /\ endTime = 0
    /\ fdPending = 0
    /\ fdRead = 0
    /\ served = 0
    /\ pulses = 0

(***************************************************************************)
(* Environment                                                             *)
(***************************************************************************)
Tick ==
    /\ \E d \in TickSet :
          /\ now + d <= MaxNow \/ InDelay
          /\ now' = now + d
          /\ clock' = U32Add(clock, d)
    /\ UNCHANGED << pc, isr, intFlag, attached, triacOut, triac, foot,
                    weldingActive, firingDelay, setTimeVal, setPowerVal,
                    rawTime, rawPower, dispNum, lastWeldTime, weldDuration,
                    delayStart, isrUs, hadEnd, endTime, fdPending, fdRead,
                    served, pulses >>

FootPress ==
    /\ foot = "HIGH"
    /\ foot' = "LOW"
    /\ UNCHANGED << pc, isr, intFlag, attached, triacOut, triac,
                    weldingActive, firingDelay, setTimeVal, setPowerVal,
                    rawTime, rawPower, dispNum, lastWeldTime, weldDuration,
                    clock, delayStart, now, isrUs, hadEnd, endTime,
                    fdPending, fdRead, served, pulses >>

FootRelease ==
    /\ foot = "LOW"
    /\ foot' = "HIGH"
    /\ UNCHANGED << pc, isr, intFlag, attached, triacOut, triac,
                    weldingActive, firingDelay, setTimeVal, setPowerVal,
                    rawTime, rawPower, dispNum, lastWeldTime, weldDuration,
                    clock, delayStart, now, isrUs, hadEnd, endTime,
                    fdPending, fdRead, served, pulses >>

\* a rising edge on PIN_ZERO_CROSS latches the INT0 request
ZeroCross ==
    /\ attached
    /\ ~intFlag
    /\ weldingActive => served < MaxPulses
    /\ intFlag' = TRUE
    /\ UNCHANGED << pc, isr, attached, triacOut, triac, foot,
                    weldingActive, firingDelay, setTimeVal, setPowerVal,
                    rawTime, rawPower, dispNum, lastWeldTime, weldDuration,
                    clock, delayStart, now, isrUs, hadEnd, endTime,
                    fdPending, fdRead, served, pulses >>

(***************************************************************************)
(* zeroCrossISR                                                            *)
(***************************************************************************)
\* entry, the test of weldingActive and the busy-wait of firingDelay us
zeroCrossISR_Enter ==
    /\ intFlag
    /\ isr = "idle"
    /\ intFlag' = FALSE
    /\ IF IsrArmed
         THEN /\ isr' = "fire"
              /\ \E v \in HandlerReads :
                    /\ fdRead' = v
                    /\ isrUs' = IF v > 0 THEN v ELSE 0
              /\ served' = served + 1
         ELSE /\ isr' = "idle"
              /\ isrUs' = 0
              /\ fdRead' = 0
              /\ served' = served
    /\ UNCHANGED << pc, attached, triacOut, triac, foot, weldingActive,
                    firingDelay, setTimeVal, setPowerVal, rawTime,
                    rawPower, dispNum, lastWeldTime, weldDuration, clock,
                    delayStart, now, hadEnd, endTime, fdPending, pulses >>

zeroCrossISR_High_Skipped ==
    /\ isr = "fire"
    /\ isr' = "idle"
    /\ UNCHANGED << pc, intFlag, attached, triacOut, triac, foot,
                    weldingActive, firingDelay, setTimeVal, setPowerVal,
                    rawTime, rawPower, dispNum, lastWeldTime, weldDuration,
                    clock, delayStart, now, isrUs, hadEnd, endTime,
                    fdPending, fdRead, served, pulses >>

\* digitalWrite(PIN_TRIAC, HIGH)
zeroCrossISR_High ==
    /\ isr = "fire"
    /\ triac' = "HIGH"
    /\ pulses' = pulses + 1
    /\ isr' = "pulse"
    /\ UNCHANGED << pc, intFlag, attached, triacOut, foot, weldingActive,
                    firingDelay, setTimeVal, setPowerVal, rawTime,
                    rawPower, dispNum, lastWeldTime, weldDuration, clock,
                    delayStart, now, isrUs, hadEnd, endTime, fdPending,
                    fdRead, served >>

\* delayMicroseconds(50); digitalWrite(PIN_TRIAC, LOW); return
zeroCrossISR_Low ==
    /\ isr = "pulse"
    /\ isrUs' = isrUs + TRIGGER_PULSE_US
    /\ triac' = "LOW"
    /\ isr' = "idle"
    /\ UNCHANGED << pc, intFlag, attached, triacOut, foot, weldingActive,
                    firingDelay, setTimeVal, setPowerVal, rawTime,
                    rawPower, dispNum, lastWeldTime, weldDuration, clock,
                    delayStart, now, hadEnd, endTime, fdPending, fdRead,
                    served, pulses >>

(***************************************************************************)
(* setup()                                                                 *)
(***************************************************************************)
\* pinMode(PIN_TRIAC, OUTPUT)
setup_pinMode ==
    /\ pc = "setup_pinMode" /\ MainRuns
    /\ triacOut' = TRUE
    /\ pc' = "setup_triacLow"
    /\ UNCHANGED << isr, intFlag, attached, triac, foot, weldingActive,
                    firingDelay, setTimeVal, setPowerVal, rawTime,
                    rawPower, dispNum, lastWeldTime, weldDuration, clock,
                    delayStart, now, isrUs, hadEnd, endTime, fdPending,
                    fdRead, served, pulses >>

\* digitalWrite(PIN_TRIAC, LOW)
setup_triacLow ==
    /\ pc = "setup_triacLow" /\ MainRuns
    /\ triac' = "LOW"
    /\ pc' = "setup_attach"
    /\ UNCHANGED << isr, intFlag, attached, triacOut, foot, weldingActive,
                    firingDelay, setTimeVal, setPowerVal, rawTime,
                    rawPower, dispNum, lastWeldTime, weldDuration, clock,
                    delayStart, now, isrUs, hadEnd, endTime, fdPending,
                    fdRead, served, pulses >>

\* attachInterrupt(digitalPinToInterrupt(PIN_ZERO_CROSS), zeroCrossISR, RISING)
setup_attach ==
    /\ pc = "setup_attach" /\ MainRuns
    /\ attached' = TRUE
    /\ pc' = "setup_delay"
    /\ UNCHANGED << isr, intFlag, triacOut, triac, foot, weldingActive,
                    firingDelay, setTimeVal, setPowerVal, rawTime,
                    rawPower, dispNum, lastWeldTime, weldDuration, clock,
                    delayStart, now, isrUs, hadEnd, endTime, fdPending,
                    fdRead, served, pulses >>

\* delay(1000): entry
setup_delay ==
    /\ pc = "setup_delay" /\ MainRuns
    /\ delayStart' = now
    /\ pc' = "setup_wait"
    /\ UNCHANGED << isr, intFlag, attached, triacOut, triac, foot,
                    weldingActive, firingDelay, setTimeVal, setPowerVal,
                    rawTime, rawPower, dispNum, lastWeldTime, weldDuration,
                    clock, now, isrUs, hadEnd, endTime, fdPending, fdRead,
                    served, pulses >>

\* delay(1000): return; setup() returns and loop() is entered
setup_return ==
    /\ pc = "setup_wait" /\ MainRuns
    /\ DelayElapsed(U32(SETUP_DELAY_MS))
    /\ pc' = "loop_read"
    /\ UNCHANGED << isr, intFlag, attached, triacOut, triac, foot,
                    weldingActive, firingDelay, setTimeVal, setPowerVal,
                    rawTime, rawPower, dispNum, lastWeldTime, weldDuration,
                    clock, delayStart, now, isrUs, hadEnd, endTime,
                    fdPending, fdRead, served, pulses >>

(***************************************************************************)
(* loop()                                                                  *)
(***************************************************************************)
\* readPotentiometers() up to the first byte stored into firingDelay, the
\* two samples drawn from the pairs P
readPotentiometers(P) ==
    /\ pc = "loop_read" /\ MainRuns
    /\ \E s \in P :
          /\ rawTime' = s[1]
          /\ setTimeVal' = TimeLevelOf(s[1])
          /\ rawPower' = s[2]
          /\ setPowerVal' = PowerPercentOf(s[2])
          /\ fdPending' = FiringDelayOf(PowerPercentOf(s[2]))
    /\ pc' = "loop_store"
    /\ UNCHANGED << isr, intFlag, attached, triacOut, triac, foot,
                    weldingActive, firingDelay, dispNum, lastWeldTime,
                    weldDuration, clock, delayStart, now, isrUs, hadEnd,
                    endTime, fdRead, served, pulses >>

\* readPotentiometers(): the second byte stored into firingDelay; return
readPotentiometers_store_Dropped ==
    /\ pc = "loop_store" /\ MainRuns
    /\ pc' = "loop_display"
    /\ UNCHANGED << isr, intFlag, attached, triacOut, triac, foot,
                    weldingActive, firingDelay, setTimeVal, setPowerVal,
                    rawTime, rawPower, dispNum, lastWeldTime, weldDuration,
                    clock, delayStart, now, isrUs, hadEnd, endTime,
                    fdPending, fdRead, served, pulses >>

readPotentiometers_store ==
    /\ pc = "loop_store" /\ MainRuns
    /\ firingDelay' = fdPending
    /\ pc' = "loop_display"
    /\ UNCHANGED << isr, intFlag, attached, triacOut, triac, foot,
                    weldingActive, setTimeVal, setPowerVal, rawTime,
                    rawPower, dispNum, lastWeldTime, weldDuration, clock,
                    delayStart, now, isrUs, hadEnd, endTime, fdPending,
                    fdRead, served, pulses >>

\* updateDisplay()
updateDisplay ==
    /\ pc = "loop_display" /\ MainRuns
    /\ dispNum' = DispNumOf(setTimeVal, setPowerVal)
    /\ pc' = "loop_foot"
    /\ UNCHANGED << isr, intFlag, attached, triacOut, triac, foot,
                    weldingActive, firingDelay, setTimeVal, setPowerVal,
                    rawTime, rawPower, lastWeldTime, weldDuration, clock,
                    delayStart, now, isrUs, hadEnd, endTime, fdPending,
                    fdRead, served, pulses >>

\* if (digitalRead(PIN_FOOT_SW) == LOW)
loop_footSwitch ==
    /\ pc = "loop_foot" /\ MainRuns
    /\ pc' = IF foot = "LOW" THEN "loop_debounce" ELSE "loop_read"
    /\ UNCHANGED << isr, intFlag, attached, triacOut, triac, foot,
                    weldingActive, firingDelay, setTimeVal, setPowerVal,
                    rawTime, rawPower, dispNum, lastWeldTime, weldDuration,
                    clock, delayStart, now, isrUs, hadEnd, endTime,
                    fdPending, fdRead, served, pulses >>

\* if (millis() - lastWeldTime > DEBOUNCE_MS) performWeld();
loop_debounce_Restamp ==
    /\ pc = "loop_debounce" /\ MainRuns
    /\ pc' = IF DebounceElapsed THEN "weld_calc" ELSE "loop_read"
    /\ lastWeldTime' = IF DebounceElapsed THEN lastWeldTime ELSE millis
    /\ UNCHANGED << isr, intFlag, attached, triacOut, triac, foot,
                    weldingActive, firingDelay, setTimeVal, setPowerVal,
                    rawTime, rawPower, dispNum, weldDuration,
                    clock, delayStart, now, isrUs, hadEnd, endTime,
                    fdPending, fdRead, served, pulses >>

loop_debounce ==
    /\ pc = "loop_debounce" /\ MainRuns
    /\ pc' = IF DebounceElapsed THEN "weld_calc" ELSE "loop_read"
    /\ UNCHANGED << isr, intFlag, attached, triacOut, triac, foot,
                    weldingActive, firingDelay, setTimeVal, setPowerVal,
                    rawTime, rawPower, dispNum, lastWeldTime, weldDuration,
                    clock, delayStart, now, isrUs, hadEnd, endTime,
                    fdPending, fdRead, served, pulses >>

\* lastWeldTime = millis(), after performWeld() has returned
loop_stamp_Skipped ==
    /\ pc = "loop_stamp" /\ MainRuns
    /\ hadEnd' = TRUE
    /\ endTime' = now
    /\ pc' = "loop_read"
    /\ UNCHANGED << isr, intFlag, attached, triacOut, triac, foot,
                    weldingActive, firingDelay, setTimeVal, setPowerVal,
                    rawTime, rawPower, dispNum, lastWeldTime, weldDuration,
                    clock, delayStart, now, isrUs, fdPending, fdRead,
                    served, pulses >>

loop_stamp ==
    /\ pc = "loop_stamp" /\ MainRuns
    /\ lastWeldTime' = millis
    /\ hadEnd' = TRUE
    /\ endTime' = now
    /\ pc' = "loop_read"
    /\ UNCHANGED << isr, intFlag, attached, triacOut, triac, foot,
                    weldingActive, firingDelay, setTimeVal, setPowerVal,
                    rawTime, rawPower, dispNum, weldDuration, clock,
                    delayStart, now, isrUs, fdPending, fdRead, served,
                    pulses >>

(***************************************************************************)
(* performWeld()                                                           *)
(***************************************************************************)
\* unsigned long weldDuration = setTimeVal * 20
performWeld_calc ==
    /\ pc = "weld_calc" /\ MainRuns
    /\ weldDuration' = WeldDurationOf(setTimeVal)
    /\ pc' = "weld_arm"
    /\ UNCHANGED << isr, intFlag, attached, triacOut, triac, foot,
                    weldingActive, firingDelay, setTimeVal, setPowerVal,
                    rawTime, rawPower, dispNum, lastWeldTime, clock,
                    delayStart, now, isrUs, hadEnd, endTime, fdPending,
                    fdRead, served, pulses >>

\* weldingActive = true
performWeld_arm ==
    /\ pc = "weld_arm" /\ MainRuns
    /\ weldingActive' = TRUE
    /\ served' = 0
    /\ pulses' = 0
    /\ pc' = "weld_delay"
    /\ UNCHANGED << isr, intFlag, attached, triacOut, triac, foot,
                    firingDelay, setTimeVal, setPowerVal, rawTime,
                    rawPower, dispNum, lastWeldTime, weldDuration, clock,
                    delayStart, now, isrUs, hadEnd, endTime, fdPending,
                    fdRead >>

\* delay(weldDuration): entry
performWeld_delay_Stamped ==
    /\ pc = "weld_delay" /\ MainRuns
    /\ delayStart' = now
    /\ lastWeldTime' = millis
    /\ pc' = "weld_wait"
    /\ UNCHANGED << isr, intFlag, attached, triacOut, triac, foot,
                    weldingActive, firingDelay, setTimeVal, setPowerVal,
                    rawTime, rawPower, dispNum, weldDuration,
                    clock, now, isrUs, hadEnd, endTime, fdPending, fdRead,
                    served, pulses >>

\* delay(weldDuration): entry

performWeld_delay ==
    /\ pc = "weld_delay" /\ MainRuns
    /\ delayStart' = now
    /\ pc' = "weld_wait"
    /\ UNCHANGED << isr, intFlag, attached, triacOut, triac, foot,
                    weldingActive, firingDelay, setTimeVal, setPowerVal,
                    rawTime, rawPower, dispNum, lastWeldTime, weldDuration,
                    clock, now, isrUs, hadEnd, endTime, fdPending, fdRead,
                    served, pulses >>

\* delay(weldDuration): return
performWeld_wake ==
    /\ pc = "weld_wait" /\ MainRuns
    /\ DelayElapsed(weldDuration)
    /\ pc' = "weld_disarm"
    /\ UNCHANGED << isr, intFlag, attached, triacOut, triac, foot,
                    weldingActive, firingDelay, setTimeVal, setPowerVal,
                    rawTime, rawPower, dispNum, lastWeldTime, weldDuration,
                    clock, delayStart, now, isrUs, hadEnd, endTime,
                    fdPending, fdRead, served, pulses >>

\* weldingActive = false
performWeld_disarm_Skipped ==
    /\ pc = "weld_disarm" /\ MainRuns
    /\ pc' = "weld_low"
    /\ UNCHANGED << isr, intFlag, attached, triacOut, triac, foot,
                    weldingActive, firingDelay, setTimeVal, setPowerVal,
                    rawTime, rawPower, dispNum, lastWeldTime, weldDuration,
                    clock, delayStart, now, isrUs, hadEnd, endTime,
                    fdPending, fdRead, served, pulses >>

performWeld_disarm ==
    /\ pc = "weld_disarm" /\ MainRuns
    /\ weldingActive' = FALSE
    /\ pc' = "weld_low"
    /\ UNCHANGED << isr, intFlag, attached, triacOut, triac, foot,
                    firingDelay, setTimeVal, setPowerVal, rawTime,
                    rawPower, dispNum, lastWeldTime, weldDuration, clock,
                    delayStart, now, isrUs, hadEnd, endTime, fdPending,
                    fdRead, served, pulses >>

\* digitalWrite(PIN_TRIAC, LOW); return
performWeld_triacLow ==
    /\ pc = "weld_low" /\ MainRuns
    /\ triac' = "LOW"
    /\ pc' = "loop_stamp"
    /\ UNCHANGED << isr, intFlag, attached, triacOut, foot, weldingActive,
                    firingDelay, setTimeVal, setPowerVal, rawTime,
                    rawPower, dispNum, lastWeldTime, weldDuration, clock,
                    delayStart, now, isrUs, hadEnd, endTime, fdPending,
                    fdRead, served, pulses >>

(***************************************************************************)
(* Specifications                                                          *)
(***************************************************************************)
Main ==
    \/ setup_pinMode \/ setup_triacLow \/ setup_attach \/ setup_delay
    \/ setup_return
    \/ readPotentiometers(PotPairs) \/ readPotentiometers_store
    \/ updateDisplay
    \/ loop_footSwitch \/ loop_debounce \/ loop_stamp
    \/ performWeld_calc \/ performWeld_arm \/ performWeld_delay
    \/ performWeld_wake \/ performWeld_disarm \/ performWeld_triacLow

Isr == zeroCrossISR_Enter \/ zeroCrossISR_High \/ zeroCrossISR_Low

Env == Tick \/ FootPress \/ FootRelease \/ ZeroCross

Next == Main \/ Isr \/ Env

Spec == Init /\ [][Next]_vars

\* The handler occupies the core for at most firingDelay + 50 us of every
\* half cycle, so the main program is scheduled again and again (strong
\* fairness); the handler itself and the passage of time are never blocked.
FairSpec == Spec /\ SF_vars(Main) /\ WF_vars(Isr) /\ WF_vars(Tick)

\* The state in which setup() hands over to loop(): no tick beyond the
\* 1000 ms of setup(), no zero crossing pending
LoopEntry ==
    /\ pc = "loop_read"
    /\ isr = "idle"
    /\ intFlag = FALSE
    /\ attached = TRUE
    /\ triacOut = TRUE
    /\ triac = "LOW"
    /\ foot \in {"LOW", "HIGH"}
    /\ weldingActive = InitWeldingActive
    /\ firingDelay = 0
    /\ setTimeVal = 0
    /\ setPowerVal = 0
    /\ rawTime = 0
    /\ rawPower = 0
    /\ dispNum = 0
    /\ lastWeldTime = U32(0)
    /\ weldDuration = U32(0)
    /\ clock = U32(SETUP_DELAY_MS)
    /\ delayStart = 0
    /\ now = SETUP_DELAY_MS
    /\ isrUs = 0
    /\ hadEnd = FALSE
    /\ endTime = 0
    /\ fdPending = 0
    /\ fdRead = 0
    /\ served = 0
    /\ pulses = 0

\* loop() from its first iteration up to the blocking delay of the first
\* session, at one instant of time, the potentiometers drawn from P
Arming(P) ==
    \/ readPotentiometers(P) \/ readPotentiometers_store \/ updateDisplay
    \/ loop_footSwitch \/ loop_debounce
    \/ performWeld_calc \/ performWeld_arm \/ performWeld_delay
    \/ Isr \/ FootPress \/ FootRelease \/ ZeroCross

\* every sample the 10-bit converter can return
SweepNext == Arming(PotSweep)

SweepSpec == LoopEntry /\ [][SweepNext]_vars

\* samples beyond the converter's range, as far as the int returned by
\* analogRead() allows within RawExcess
WideNext == Arming(PotWide)

WideSpec == LoopEntry /\ [][WideNext]_vars

\* loop() and performWeld(), the potentiometers drawn from P
LoopSteps(P) ==
    \/ readPotentiometers(P) \/ readPotentiometers_store \/ updateDisplay
    \/ loop_footSwitch \/ loop_debounce \/ loop_stamp
    \/ performWeld_calc \/ performWeld_arm \/ performWeld_delay
    \/ performWeld_wake \/ performWeld_disarm \/ performWeld_triacLow

\* A 50 Hz line: one half cycle of 10 ms passes and its zero crossing is
\* latched.  The statements of loop() take microseconds, so a half cycle
\* passes only while the program waits in delay() or between two iterations,
\* and the handler has always served the previous crossing by then.
HalfCycle ==
    /\ isr = "idle" /\ ~intFlag
    /\ InDelay \/ (pc = "loop_read" /\ now + HALF_CYCLE_MS <= MaxNow)
    /\ now' = now + HALF_CYCLE_MS
    /\ clock' = U32Add(clock, HALF_CYCLE_MS)
    /\ intFlag' = TRUE
    /\ UNCHANGED << pc, isr, attached, triacOut, triac, foot, weldingActive,
                    firingDelay, setTimeVal, setPowerVal, rawTime,
                    rawPower, dispNum, lastWeldTime, weldDuration,
                    delayStart, isrUs, hadEnd, endTime, fdPending, fdRead,
                    served, pulses >>

\* the lowest sample that gives timeLevel 10, with the one sample that gives
\* powerPercent 100
FullPowerPots ==
    {<<r, ADC_MAX>> : r \in {x \in 1..ADC_MAX :
                                TimeLevelOf(x) = 10 /\ TimeLevelOf(x - 1) < 10}}

FullPowerNext ==
    LoopSteps(FullPowerPots) \/ Isr \/ HalfCycle \/ FootPress \/ FootRelease

FullPowerSpec == LoopEntry /\ [][FullPowerNext]_vars

\* Milliseconds left, at the end of a session, before millis() wraps around
WrapLeads == {100, 450}

\* loop() is entered right after the stamp of line 86, at the end of a
\* session of the lowest settings that has run about 49.7 days after boot:
\* millis() is a few hundred ms below 2^32.  now and endTime count true time
\* from the start of that session.
WrapEntry ==
    /\ pc = "loop_read"
    /\ isr = "idle"
    /\ intFlag = FALSE
    /\ attached = TRUE
    /\ triacOut = TRUE
    /\ triac = "LOW"
    /\ foot \in {"LOW", "HIGH"}
    /\ weldingActive = FALSE
    /\ rawTime = 0
    /\ rawPower = 0
    /\ setTimeVal = TimeLevelOf(0)
    /\ setPowerVal = PowerPercentOf(0)
    /\ firingDelay = FiringDelayOf(PowerPercentOf(0))
    /\ fdPending = firingDelay
    /\ dispNum = DispNumOf(setTimeVal, setPowerVal)
    /\ weldDuration = WeldDurationOf(setTimeVal)
    /\ delayStart = 0
    /\ now = setTimeVal * MS_PER_LEVEL
    /\ endTime = now
    /\ hadEnd = TRUE
    /\ \E lead \in WrapLeads : clock = U32Sub(U32(0), U32(lead))
    /\ lastWeldTime = clock
    /\ isrUs = 0
    /\ fdRead = 0
    /\ served = 0
    /\ pulses = 0

WrapNext == LoopSteps(PotPairs) \/ Isr \/ Env

WrapSpec == WrapEntry /\ [][WrapNext]_vars

\* loop() is entered about 49.7 days after boot, the foot switch never read
\* engaged so far: no session has run, lastWeldTime still holds its initial
\* 0 and millis() is a few hundred ms below 2^32.  now counts true time from
\* this instant.
IdleWrapEntry ==
    /\ pc = "loop_read"
    /\ isr = "idle"
    /\ intFlag = FALSE
    /\ attached = TRUE
    /\ triacOut = TRUE
    /\ triac = "LOW"
    /\ foot = "HIGH"
    /\ weldingActive = FALSE
    /\ rawTime = 0
    /\ rawPower = 0
    /\ setTimeVal = TimeLevelOf(0)
    /\ setPowerVal = PowerPercentOf(0)
    /\ firingDelay = FiringDelayOf(PowerPercentOf(0))
    /\ fdPending = firingDelay
    /\ dispNum = DispNumOf(setTimeVal, setPowerVal)
    /\ weldDuration = U32(0)
    /\ delayStart = 0
    /\ now = 0
    /\ endTime = 0
    /\ hadEnd = FALSE
    /\ \E lead \in WrapLeads : clock = U32Sub(U32(0), U32(lead))
    /\ lastWeldTime = U32(0)
    /\ isrUs = 0
    /\ fdRead = 0
    /\ served = 0
    /\ pulses = 0

IdleWrapSpec == IdleWrapEntry /\ [][WrapNext]_vars

(***************************************************************************)
(* Properties                                                              *)
(***************************************************************************)
BeforeFirstSession ==
    ~hadEnd /\ pc \notin {"weld_delay", "weld_wait", "weld_disarm",
                          "weld_low", "loop_stamp"}

\* C1: PIN_TRIAC is LOW whenever weldingActive is false, and it is HIGH only
\* inside the 50 us pulse of a handler invocation that found weldingActive
\* true, for every placement of the interrupts.
C1_TriacLowUnlessPulse ==
    /\ ~weldingActive => triac = "LOW"
    /\ triac = "HIGH" => isr = "pulse" /\ weldingActive

C1_PulseInSession == triac = "HIGH" /\ pc = "weld_wait"

\* C2: performWeld() clears weldingActive before it writes PIN_TRIAC LOW, and
\* when it has returned weldingActive is false and PIN_TRIAC is LOW, wherever
\* the zero-cross interrupts fell.
C2_LowAtReturn ==
    /\ pc = "weld_low" => ~weldingActive
    /\ pc = "loop_stamp" => ~weldingActive /\ triac = "LOW"

\* performWeld() has returned after a session in which the handler pulsed,
\* with a further zero crossing latched since
C2_ReturnedWithInterrupts ==
    pc = "loop_stamp" /\ isrUs >= TRIGGER_PULSE_US /\ intFlag

\* C3: every call of performWeld() after the first begins at least
\* DEBOUNCE_MS after the time-stamp taken when the previous call returned.
C3_NoSessionInsideDebounce ==
    (pc = "weld_calc" /\ hadEnd) => now - endTime >= DEBOUNCE_MS

C3_SecondSession == pc = "weld_calc" /\ hadEnd /\ foot = "LOW"

\* C4 as stated: an engaged foot switch read when at least DEBOUNCE_MS have
\* elapsed since the end of the previous session, the instant of exactly
\* DEBOUNCE_MS included, starts a session.
C4_AtLeastDebounce ==
    [][(pc = "loop_debounce" /\ pc' # pc /\ hadEnd
          /\ now - endTime >= DEBOUNCE_MS) => pc' = "weld_calc"]_vars

\* C4 as amended: an engaged foot switch read when more than DEBOUNCE_MS have
\* elapsed since the end of the previous session starts one session, and one
\* read when exactly DEBOUNCE_MS have elapsed starts none.
C4_MoreThanDebounce ==
    [][(pc = "loop_debounce" /\ pc' # pc /\ hadEnd)
          => /\ now - endTime > DEBOUNCE_MS => pc' = "weld_calc"
             /\ now - endTime = DEBOUNCE_MS => pc' = "loop_read"]_vars

C4_AcceptedAfterDebounce ==
    pc = "weld_calc" /\ hadEnd /\ now - endTime > DEBOUNCE_MS

\* C5: the published firing delay is non-increasing in powerPercent over
\* 10..100, is 0 us at powerPercent 100 and 8500 us at powerPercent 10.
C5_FiringDelayEndpoints ==
    pc = "loop_display" =>
        /\ firingDelay = FiringDelayOf(setPowerVal)
        /\ \A q \in POWER_MIN..POWER_MAX :
              q <= setPowerVal => FiringDelayOf(q) >= firingDelay
        /\ setPowerVal = POWER_MAX => firingDelay = 0
        /\ setPowerVal = POWER_MIN => firingDelay = DELAY_AT_LOW

\* C6: firingDelay always lies in 0..8500 us, firingDelay plus the trigger
\* pulse is below the 10000 us half cycle, and no handler invocation lasts a
\* half cycle.
C6_FiringDelayInRange ==
    /\ firingDelay \in 0..DELAY_AT_LOW
    /\ firingDelay + TRIGGER_PULSE_US < HALF_CYCLE_US
    /\ isrUs < HALF_CYCLE_US

\* a handler invocation that waited the longest delay has completed
C6_LongestHandler ==
    isr = "idle" /\ isrUs = DELAY_AT_LOW + TRIGGER_PULSE_US

\* C7: an armed session always runs to completion (weldingActive cleared and
\* PIN_TRIAC LOW on return); it does not end before setTimeVal * 20 ms have
\* passed, its duration and start are not changed while it waits, and
\* weldingActive is set nowhere but at the start of performWeld(), whatever
\* the foot switch and the potentiometers do meanwhile.
C7_RunsToCompletion ==
    /\ weldingActive ~> (pc = "loop_stamp" /\ ~weldingActive /\ triac = "LOW")
    /\ [][(weldingActive /\ ~weldingActive')
             => now - delayStart >= setTimeVal * MS_PER_LEVEL]_vars
    /\ [][(pc = "weld_wait" /\ pc' = "weld_wait")
             => UNCHANGED << weldDuration, delayStart, weldingActive >>]_vars
    /\ [][(~weldingActive /\ weldingActive') => pc = "weld_arm"]_vars

\* the foot switch has been released while the session is still waiting
C7_ReleasedMidSession ==
    /\ pc = "weld_wait" /\ weldingActive /\ foot = "HIGH"
    /\ now - delayStart > 0 /\ ~DelayElapsed(weldDuration)

SettingsInRange ==
    /\ setTimeVal \in TIME_MIN..TIME_MAX
    /\ setPowerVal \in POWER_MIN..POWER_MAX
    /\ firingDelay \in 0..DELAY_AT_LOW

C10_SafeBoot ==
    /\ pc = "setup_attach" => triacOut /\ triac = "LOW" /\ ~weldingActive
    /\ attached => triacOut
    /\ BeforeFirstSession => triac = "LOW" /\ isr = "idle" /\ ~weldingActive

\* a zero crossing is latched while setup() still waits
C10_ZeroCrossDuringSetup == pc = "setup_wait" /\ attached /\ intFlag

\* C11: with timeLevel 10 and powerPercent 100 on a 50 Hz line a session
\* lasts 200 ms, every handler invocation in it fires after a firing delay
\* of 0 us, and the session gives about 10 triac pulses.
C11_FullPowerScenario ==
    (setTimeVal = 10 /\ setPowerVal = POWER_MAX) =>
        /\ pc \in {"weld_arm", "weld_delay", "weld_wait", "weld_disarm"}
              => weldDuration = << 0, 200 >>
        /\ pc = "weld_disarm" => now - delayStart = 200
        /\ isr \in {"fire", "pulse"} => fdRead = 0
        /\ pc = "loop_stamp" => pulses \in 8..12

\* C12: firingDelay is published before weldingActive is set: while the
\* session is armed no store into firingDelay is under way, and every handler
\* invocation that found weldingActive true has read the delay computed from
\* the power sample of the iteration that started the session, whole.
C12_PublishedBeforeArmed ==
    /\ weldingActive =>
          /\ pc # "loop_store"
          /\ firingDelay = FiringDelayOf(PowerPercentOf(rawPower))
    /\ isr \in {"fire", "pulse"} =>
          /\ pc \in {"weld_delay", "weld_wait", "weld_disarm"}
          /\ fdRead = FiringDelayOf(PowerPercentOf(rawPower))

\* the handler fires in a second session, whose power setting differs from
\* the one shown by the value it read in the first
C12_ReadInLaterSession ==
    isr = "fire" /\ hadEnd /\ fdRead = DELAY_AT_LOW /\ rawPower = 0

\* C13: while weldingActive is true no step writes firingDelay, setTimeVal,
\* setPowerVal or lastWeldTime, and a step of the zero-cross handler changes
\* nothing of the program's state but PIN_TRIAC (and the handler's own
\* position and the pending-interrupt flag).
C13_SessionFrame ==
    [][ /\ weldingActive =>
              UNCHANGED << firingDelay, fdPending, setTimeVal, setPowerVal,
                           lastWeldTime >>
        /\ (isr' # isr \/ (intFlag /\ ~intFlag')) =>
              UNCHANGED << pc, weldingActive, firingDelay, fdPending,
                           setTimeVal, setPowerVal, rawTime, rawPower,
                           dispNum, lastWeldTime, weldDuration, clock,
                           attached, triacOut >>
      ]_vars

\* the main program is inside delay(weldDuration) and the handler has fired
C13_PulsedWhileBlocked ==
    pc = "weld_wait" /\ weldingActive /\ pulses > 0 /\ isr = "idle"

\* C14: every handler invocation that finds weldingActive true makes exactly
\* one pulse (PIN_TRIAC HIGH, then LOW), so that between invocations the
\* pulses of the session are as many as the zero-cross events served in it;
\* an invocation that finds weldingActive false returns at once, writing
\* neither PIN_TRIAC nor any variable of the program.
C14_OnePulsePerServedEvent ==
    /\ [](/\ isr = "idle"  => (pulses = served /\ triac = "LOW")
          /\ isr = "fire"  => (pulses + 1 = served /\ triac = "LOW")
          /\ isr = "pulse" => (pulses = served /\ triac = "HIGH"))
    /\ [][ (isr = "idle" /\ intFlag /\ ~intFlag') =>
              IF weldingActive
                THEN isr' = "fire" /\ served' = served + 1
                ELSE UNCHANGED << isr, triac, pc, weldingActive, firingDelay,
                                  fdPending, setTimeVal, setPowerVal,
                                  lastWeldTime, weldDuration, dispNum,
                                  served, pulses >>
         ]_vars

\* a session in which the handler has served, and pulsed for, as many
\* zero-cross events as a session of the model can hold
C14_AllServedPulsed ==
    isr = "idle" /\ weldingActive /\ served = MaxPulses /\ pulses = MaxPulses

C16_DisplayDigits ==
    pc = "loop_foot" =>
        /\ dispNum \in 0..9999
        /\ dispNum \div DISPLAY_SHIFT = setTimeVal
        /\ dispNum % DISPLAY_SHIFT = setPowerVal

\* C17: lastWeldTime changes only in the step that follows the return of
\* performWeld(), weldingActive changes only inside performWeld(), and a
\* loop() iteration that ends at the foot-switch test or at the debounce
\* test leaves both as they were.
C17_StampOnlyAfterWeld ==
    [][ /\ lastWeldTime' # lastWeldTime =>
              (pc = "loop_stamp" /\ pc' = "loop_read")
        /\ weldingActive' # weldingActive =>
              pc \in {"weld_arm", "weld_disarm"}
        /\ (pc \in {"loop_foot", "loop_debounce"} /\ pc' = "loop_read") =>
              UNCHANGED << lastWeldTime, weldingActive >>
      ]_vars

\* the foot switch has been read engaged inside the debounce window, time
\* having passed since the session's end, and the stamp is still that of the
\* session's end
C17_PressInsideWindow ==
    /\ pc = "loop_debounce" /\ hadEnd
    /\ now - endTime \in 1..DEBOUNCE_MS
    /\ U32Sub(clock, lastWeldTime) = U32(now - endTime)

\* C18: when millis() wraps around between the end of a session and a later
\* debounce test, the test, computed modulo 2^32, accepts the press exactly
\* when more than DEBOUNCE_MS of true time have passed since that end.
C18_WrapSafeDebounce ==
    [][(pc = "loop_debounce" /\ pc' # pc /\ hadEnd)
          => /\ U32Sub(millis, lastWeldTime) = U32(now - endTime)
             /\ pc' = "weld_calc" <=> now - endTime > DEBOUNCE_MS]_vars

\* a press accepted when millis() has wrapped around and is numerically
\* below lastWeldTime
C18_AcceptedAcrossWrap ==
    /\ pc = "weld_calc" /\ hadEnd
    /\ U32Gt(lastWeldTime, clock)
    /\ now - endTime > DEBOUNCE_MS

\* C19: as long as no session has ended, a loop() iteration that reads the
\* foot switch engaged starts a session: the debounce test of the first
\* engagement succeeds.
C19_FirstPressStartsSession ==
    [][(pc = "loop_debounce" /\ pc' # pc /\ ~hadEnd) => pc' = "weld_calc"]_vars

====
